---- MODULE Spec2Model ----
(***************************************************************************)
(* jstests/multiVersion/global_snapshot_reads_upgrade_cluster.js           *)
(*                                                                         *)
(* The script is one thread of control: a probe of the storage engine, the *)
(* provisioning of a last-stable sharded cluster, and then five batteries  *)
(* of snapshot reads (verifyGlobalSnapshotReads against st.s0 and st.s1)   *)
(* separated by the rolling upgrade of the configs, the shards, the mongos *)
(* and the bump of the feature compatibility version.                      *)
(*                                                                         *)
(* The cluster is the environment.  What a snapshot read returns is chosen *)
(* by it, freely, at every command: the script is what decides whether the *)
(* run goes on.  An uncaught assertion ends the run (status "aborted").    *)
(***************************************************************************)
EXTENDS Integers, Sequences, FiniteSets, TLC

VARIABLES
    pc,                          \* index in Script of the statement to run next
    status,                      \* "running" | "skipped" | "aborted" | "done"
    step,                        \* position inside verifyGlobalSnapshotReads (0: not in it)
    txnNumber,                   \* line 27
    supportsSnapshotReadConcern, \* line 18
    cluster,                     \* st: "none" | "running" | "stopped"
    binVersion,                  \* binary of each node group of st
    fcv,                         \* featureCompatibilityVersion held by the config servers
    fixture,                     \* setup commands that took effect (lines 108-117)
    sessions,                    \* sessions started so far (line 62)
    call,                        \* activation of runCommandAndVerifyResponse
    issued,                      \* history: snapshot commands sent, in order
    responses,                   \* history: the response to each, in order
    batteries,                   \* history: calls of verifyGlobalSnapshotReads
    upgrades,                    \* history: calls of st.upgradeCluster
    fcvEvents                    \* history: checkFCV / setFeatureCompatibilityVersion

vars == <<pc, status, step, txnNumber, supportsSnapshotReadConcern, cluster,
          binVersion, fcv, fixture, sessions, call, issued, responses,
          batteries, upgrades, fcvEvents>>

----------------------------------------------------------------------------
(* Values *)

Undefined == "undefined"

\* How many error codes other than the three the script names a command may
\* fail with.
NumOtherCodes == 2

OtherCodeNames == <<"InternalError", "HostUnreachable", "NetworkTimeout", "Unauthorized">>

\* The three codes the script names, and the others.
ErrorCodes ==
    {"FailedToParse", "InvalidOptions", "SnapshotTooOld"}
      \cup {OtherCodeNames[n] : n \in 1..NumOtherCodes}

lastStableFCV == "lastStableFCV"
latestFCV == "latestFCV"

NodeGroups == {"configs", "shards", "mongos"}

\* What sessionDb.runCommand can return: ok, or a failure carrying its code.
Responses ==
    {[ok |-> TRUE, code |-> Undefined]} \cup [ok : {FALSE}, code : ErrorCodes]

NoResponse == [ok |-> FALSE, code |-> "pending"]

NoCommand == [find |-> "none", filter |-> "none", readConcern |-> "none", txnNumber |-> -1]

NoCall ==
    [cmdObj |-> NoCommand, expectSuccess |-> FALSE, expectedCode |-> Undefined,
     res |-> NoResponse, outcome |-> "none"]

----------------------------------------------------------------------------
(* The statements of the script, lines 17-160, in program order *)

Stmt(op, line) ==
    [op |-> op, line |-> line, name |-> "", asserted |-> FALSE, conn |-> "",
     expectSuccess |-> FALSE, expectedCode |-> Undefined, groups |-> {},
     version |-> ""]

Setup(name, asserted, line) ==
    [Stmt("setup", line) EXCEPT !.name = name, !.asserted = asserted]

Verify(conn, expectSuccess, expectedCode, line) ==
    [Stmt("verify", line) EXCEPT !.conn = conn, !.expectSuccess = expectSuccess,
                                 !.expectedCode = expectedCode]

Upgrade(groups, line) ==
    [Stmt("upgradeCluster", line) EXCEPT !.groups = groups, !.version = "latest"]

CheckFCVStmt(version, line) ==
    [Stmt("checkFCV", line) EXCEPT !.version = version]

SetFCVStmt(version, line) ==
    [Stmt("setFCV", line) EXCEPT !.version = version]

\* Lines 17-117: the probe, the cluster and its data.
Prelude ==
    << Stmt("probe", 17),
       Stmt("guard", 22),
       Stmt("declare", 27),
       Stmt("provision", 96),
       Setup("enableSharding", TRUE, 108),
       Setup("ensurePrimaryShard", FALSE, 109),
       Setup("shardCollection", TRUE, 110),
       Setup("split", TRUE, 111),
       Setup("moveChunk", TRUE, 112),
       Setup("insertUnsharded", FALSE, 116),
       Setup("insertSharded", FALSE, 117) >>

\* Lines 119-122.
LastStablePhase ==
    << Verify("s0", FALSE, "FailedToParse", 121),
       Verify("s1", FALSE, "FailedToParse", 122) >>

\* Lines 124-131.
ConfigsPhase ==
    << Upgrade({"configs"}, 126),
       Verify("s0", FALSE, "FailedToParse", 130),
       Verify("s1", FALSE, "FailedToParse", 131) >>

\* Lines 133-140.
ShardsPhase ==
    << Upgrade({"shards"}, 135),
       Verify("s0", FALSE, "InvalidOptions", 139),
       Verify("s1", FALSE, "InvalidOptions", 140) >>

\* Lines 142-149.
MongosPhase ==
    << Upgrade({"mongos"}, 144),
       CheckFCVStmt(lastStableFCV, 145),
       Verify("s0", TRUE, Undefined, 148),
       Verify("s1", TRUE, Undefined, 149) >>

\* Lines 151-158.
LatestFCVPhase ==
    << SetFCVStmt(latestFCV, 152),
       CheckFCVStmt(latestFCV, 154),
       Verify("s0", TRUE, Undefined, 157),
       Verify("s1", TRUE, Undefined, 158) >>

\* The feature compatibility version is raised as soon as the last binaries
\* are in place, before the reads of the mongos phase.
Script_BumpBeforeMongosReads ==
    Prelude \o LastStablePhase \o ConfigsPhase \o ShardsPhase
      \o << Upgrade({"mongos"}, 144),
            CheckFCVStmt(lastStableFCV, 145),
            SetFCVStmt(latestFCV, 152),
            CheckFCVStmt(latestFCV, 154),
            Verify("s0", TRUE, Undefined, 148),
            Verify("s1", TRUE, Undefined, 149),
            Verify("s0", TRUE, Undefined, 157),
            Verify("s1", TRUE, Undefined, 158),
            Stmt("stop", 160) >>

\* Line 140 copied to line 158: the last battery on st.s1 expects the
\* rejection of the shards phase.
Script_LastReadsExpectInvalidOptions ==
    Prelude \o LastStablePhase \o ConfigsPhase \o ShardsPhase \o MongosPhase
      \o << SetFCVStmt(latestFCV, 152),
            CheckFCVStmt(latestFCV, 154),
            Verify("s0", TRUE, Undefined, 157),
            Verify("s1", FALSE, "InvalidOptions", 158),
            Stmt("stop", 160) >>

Script ==
    Prelude \o LastStablePhase \o ConfigsPhase \o ShardsPhase \o MongosPhase
      \o LatestFCVPhase \o << Stmt("stop", 160) >>

AtEnd == pc > Len(Script)

Cur == Script[pc]

At(op) == status = "running" /\ ~AtEnd /\ Cur.op = op

\* An assertion that fails is not caught anywhere: the run ends there.
Abort == status' = "aborted" /\ UNCHANGED <<pc, step>>

Advance == pc' = pc + 1 /\ UNCHANGED <<status, step>>

----------------------------------------------------------------------------
\* The state at the entry of the function.  txnNumber is not readable before
\* line 27 gives it the value 0, and nothing reads it before: it is 0 here.
Init ==
    /\ pc = 1
    /\ status = "running"
    /\ step = 0
    /\ txnNumber = 0
    /\ supportsSnapshotReadConcern = FALSE
    /\ cluster = "none"
    /\ binVersion = [g \in NodeGroups |-> "none"]
    /\ fcv = "none"
    /\ fixture = {}
    /\ sessions = 0
    /\ call = NoCall
    /\ issued = <<>>
    /\ responses = <<>>
    /\ batteries = <<>>
    /\ upgrades = <<>>
    /\ fcvEvents = <<>>

----------------------------------------------------------------------------
(* Lines 17-27: the probe of the storage engine *)

\* const conn = MongoRunner.runMongod(); ...serverStatus()...; stopMongod(conn)
ProbeStorageEngine ==
    /\ At("probe")
    /\ \E s \in BOOLEAN : supportsSnapshotReadConcern' = s
    /\ Advance
    /\ UNCHANGED <<txnNumber, cluster, binVersion, fcv, fixture, sessions, call,
                   issued, responses, batteries, upgrades, fcvEvents>>

\* The skip is logged and the script goes on all the same.
CheckSupport_NoReturn ==
    /\ At("guard")
    /\ Advance
    /\ UNCHANGED <<txnNumber, supportsSnapshotReadConcern, cluster, binVersion, fcv,
                   fixture, sessions, call, issued, responses, batteries, upgrades,
                   fcvEvents>>

\* if (!supportsSnapshotReadConcern) { jsTestLog(...); return; }
CheckSupport ==
    /\ At("guard")
    /\ IF ~supportsSnapshotReadConcern
         THEN status' = "skipped" /\ UNCHANGED <<pc, step>>
         ELSE Advance
    /\ UNCHANGED <<txnNumber, supportsSnapshotReadConcern, cluster, binVersion, fcv,
                   fixture, sessions, call, issued, responses, batteries, upgrades,
                   fcvEvents>>

\* let txnNumber = 0;
DeclareTxnNumber ==
    /\ At("declare")
    /\ txnNumber' = 0
    /\ Advance
    /\ UNCHANGED <<supportsSnapshotReadConcern, cluster, binVersion, fcv, fixture,
                   sessions, call, issued, responses, batteries, upgrades, fcvEvents>>

----------------------------------------------------------------------------
(* Lines 95-117: the cluster and its data *)

\* new ShardingTest({shards: 2, mongos: 2, other: {...binVersion: "last-stable"}})
ProvisionCluster ==
    /\ At("provision")
    /\ cluster' = "running"
    /\ binVersion' = [g \in NodeGroups |-> "last-stable"]
    /\ fcv' = lastStableFCV
    /\ Advance
    /\ UNCHANGED <<txnNumber, supportsSnapshotReadConcern, fixture, sessions, call,
                   issued, responses, batteries, upgrades, fcvEvents>>

\* enableSharding, shardCollection, split and moveChunk are wrapped in
\* assert.commandWorked; ensurePrimaryShard and the inserts are not checked
\* by the script.
SetupStep ==
    /\ At("setup")
    /\ \E ok \in (IF Cur.asserted THEN BOOLEAN ELSE {TRUE}) :
         IF ok
           THEN fixture' = fixture \cup {Cur.name} /\ Advance
           ELSE fixture' = fixture /\ Abort
    /\ UNCHANGED <<txnNumber, supportsSnapshotReadConcern, cluster, binVersion, fcv,
                   sessions, call, issued, responses, batteries, upgrades, fcvEvents>>

----------------------------------------------------------------------------
(* Lines 33-55: runCommandAndVerifyResponse *)

\* assert.commandFailed in the place of assert.commandFailedWithCode.
runCommandAndVerifyResponse_AnyFailure(res, expectSuccess, expectedCode) ==
    IF expectSuccess
      THEN IF ~res.ok
             THEN IF res.code = "SnapshotTooOld" THEN "returned" ELSE "threw"
             ELSE "returned"
      ELSE IF ~res.ok THEN "returned" ELSE "threw"

\* assert.commandWorked alone, SnapshotTooOld not tolerated.
runCommandAndVerifyResponse_NoTolerance(res, expectSuccess, expectedCode) ==
    IF expectSuccess
      THEN IF res.ok THEN "returned" ELSE "threw"
      ELSE IF ~res.ok /\ res.code = expectedCode THEN "returned" ELSE "threw"

\* What the body does with the response res: "returned" when no assertion
\* fails, "threw" when one does.  assert.eq(SnapshotTooOld, res.code),
\* assert.commandWorked(res) and assert.commandFailedWithCode(res, expectedCode)
\* are the three assertions.
runCommandAndVerifyResponse(res, expectSuccess, expectedCode) ==
    IF expectSuccess
      THEN IF ~res.ok
             THEN IF res.code = "SnapshotTooOld" THEN "returned" ELSE "threw"
             ELSE "returned"
      ELSE IF ~res.ok /\ res.code = expectedCode THEN "returned" ELSE "threw"

----------------------------------------------------------------------------
(* Lines 61-93: verifyGlobalSnapshotReads *)

\* The counter declared inside verifyGlobalSnapshotReads: every battery
\* starts again from 0.
StartSession_ResetsCounter ==
    /\ At("verify")
    /\ step = 0
    /\ sessions' = sessions + 1
    /\ txnNumber' = 0
    /\ batteries' = Append(batteries,
                           [conn |-> Cur.conn, session |-> sessions + 1,
                            causalConsistency |-> FALSE,
                            expectSuccess |-> Cur.expectSuccess,
                            expectedCode |-> Cur.expectedCode,
                            line |-> Cur.line,
                            txnBefore |-> 0, txnAfter |-> -1,
                            returned |-> FALSE])
    /\ step' = 1
    /\ UNCHANGED <<pc, status, supportsSnapshotReadConcern, cluster,
                   binVersion, fcv, fixture, call, issued, responses, upgrades,
                   fcvEvents>>

\* const session = conn.startSession({causalConsistency: false});
StartSession ==
    /\ At("verify")
    /\ step = 0
    /\ sessions' = sessions + 1
    /\ batteries' = Append(batteries,
                           [conn |-> Cur.conn, session |-> sessions + 1,
                            causalConsistency |-> FALSE,
                            expectSuccess |-> Cur.expectSuccess,
                            expectedCode |-> Cur.expectedCode,
                            line |-> Cur.line,
                            txnBefore |-> txnNumber, txnAfter |-> -1,
                            returned |-> FALSE])
    /\ step' = 1
    /\ UNCHANGED <<pc, status, txnNumber, supportsSnapshotReadConcern, cluster,
                   binVersion, fcv, fixture, call, issued, responses, upgrades,
                   fcvEvents>>

\* One call of runCommandAndVerifyResponse up to line 34: the arguments are
\* evaluated (txnNumber++ yields the old value) and the command is sent on
\* the session of the battery.
SendSnapshotRead(db, find, filter) ==
    LET cmdObj == [find |-> find, filter |-> filter, readConcern |-> "snapshot",
                   txnNumber |-> txnNumber]
    IN  /\ call.outcome # "running"
        /\ txnNumber' = txnNumber + 1
        /\ call' = [cmdObj |-> cmdObj, expectSuccess |-> Cur.expectSuccess,
                    expectedCode |-> Cur.expectedCode, res |-> NoResponse,
                    outcome |-> "running"]
        /\ issued' = Append(issued,
                            [conn |-> Cur.conn, session |-> sessions, db |-> db,
                             cmdObj |-> cmdObj,
                             expectSuccess |-> Cur.expectSuccess,
                             expectedCode |-> Cur.expectedCode,
                             binVersion |-> binVersion, fcv |-> fcv])
        /\ UNCHANGED <<pc, status, step, supportsSnapshotReadConcern, cluster,
                       binVersion, fcv, fixture, sessions, responses, batteries,
                       upgrades, fcvEvents>>

\* Unsharded collection.
FindUnsharded ==
    /\ At("verify")
    /\ step = 1
    /\ SendSnapshotRead("unshardedDb", "unsharded", "none")

\* The filter left out: the read of one shard becomes a read of all shards.
FindShardedOneShard_NoFilter ==
    /\ At("verify")
    /\ step = 2
    /\ SendSnapshotRead("shardedDb", "sharded", "none")

\* Sharded collection, one shard.
FindShardedOneShard ==
    /\ At("verify")
    /\ step = 2
    /\ SendSnapshotRead("shardedDb", "sharded", "{x: 1}")

\* txnNumber in the place of txnNumber++ in the last command.
FindShardedAllShards_NoIncrement ==
    /\ At("verify")
    /\ step = 3
    /\ call.outcome # "running"
    /\ LET cmdObj == [find |-> "sharded", filter |-> "none",
                      readConcern |-> "snapshot", txnNumber |-> txnNumber]
       IN  /\ call' = [cmdObj |-> cmdObj, expectSuccess |-> Cur.expectSuccess,
                       expectedCode |-> Cur.expectedCode, res |-> NoResponse,
                       outcome |-> "running"]
           /\ issued' = Append(issued,
                               [conn |-> Cur.conn, session |-> sessions,
                                db |-> "shardedDb", cmdObj |-> cmdObj,
                                expectSuccess |-> Cur.expectSuccess,
                                expectedCode |-> Cur.expectedCode,
                                binVersion |-> binVersion, fcv |-> fcv])
    /\ UNCHANGED <<pc, status, step, txnNumber, supportsSnapshotReadConcern,
                   cluster, binVersion, fcv, fixture, sessions, responses,
                   batteries, upgrades, fcvEvents>>

\* Sharded collection, all shards.
FindShardedAllShards ==
    /\ At("verify")
    /\ step = 3
    /\ SendSnapshotRead("shardedDb", "sharded", "none")

\* The assertions inside a try/catch that only logs: a mismatch does not end
\* the run.
VerifyResponse_Swallow ==
    /\ status = "running"
    /\ call.outcome = "running"
    /\ \E res \in Responses :
         LET outcome == runCommandAndVerifyResponse(res, call.expectSuccess,
                                                    call.expectedCode)
         IN  /\ call' = [call EXCEPT !.res = res, !.outcome = outcome]
             /\ responses' = Append(responses, res)
             /\ IF step = 3
                  THEN /\ step' = 0
                       /\ pc' = pc + 1
                       /\ status' = status
                       /\ batteries' =
                            [batteries EXCEPT
                               ![Len(batteries)].returned = TRUE,
                               ![Len(batteries)].txnAfter = txnNumber]
                  ELSE /\ step' = step + 1
                       /\ UNCHANGED <<pc, status, batteries>>
    /\ UNCHANGED <<txnNumber, supportsSnapshotReadConcern, cluster, binVersion, fcv,
                   fixture, sessions, issued, upgrades, fcvEvents>>

\* Lines 34-54, and the return into verifyGlobalSnapshotReads: the response
\* arrives and is checked; after the third command the battery returns.
VerifyResponse ==
    /\ status = "running"
    /\ call.outcome = "running"
    /\ \E res \in Responses :
         LET outcome == runCommandAndVerifyResponse(res, call.expectSuccess,
                                                    call.expectedCode)
         IN  /\ call' = [call EXCEPT !.res = res, !.outcome = outcome]
             /\ responses' = Append(responses, res)
             /\ IF outcome = "returned"
                  THEN IF step = 3
                         THEN /\ step' = 0
                              /\ pc' = pc + 1
                              /\ status' = status
                              /\ batteries' =
                                   [batteries EXCEPT
                                      ![Len(batteries)].returned = TRUE,
                                      ![Len(batteries)].txnAfter = txnNumber]
                         ELSE /\ step' = step + 1
                              /\ UNCHANGED <<pc, status, batteries>>
                  ELSE Abort /\ UNCHANGED batteries
    /\ UNCHANGED <<txnNumber, supportsSnapshotReadConcern, cluster, binVersion, fcv,
                   fixture, sessions, issued, upgrades, fcvEvents>>

----------------------------------------------------------------------------
(* Lines 124-160: the rolling upgrade *)

\* What st.upgradeCluster(version, options) does to the binaries: the node
\* groups the options name are restarted on version, the others are left.
upgradeCluster(bv, version, groups) ==
    [g \in NodeGroups |-> IF g \in groups THEN version ELSE bv[g]]

\* What checkFCV(adminDB, version) asserts: the marker the config primary
\* holds is version.
checkFCV(marker, version) == marker = version

\* The options left out: every node group is upgraded by the first call.
UpgradeCluster_AllGroups ==
    /\ At("upgradeCluster")
    /\ binVersion' = upgradeCluster(binVersion, Cur.version, NodeGroups)
    /\ upgrades' = Append(upgrades,
                          [groups |-> NodeGroups, version |-> Cur.version,
                           before |-> binVersion, at |-> Len(issued)])
    /\ Advance
    /\ UNCHANGED <<txnNumber, supportsSnapshotReadConcern, cluster, fcv, fixture,
                   sessions, call, issued, responses, batteries, fcvEvents>>

\* st.upgradeCluster("latest", {upgradeConfigs: .., upgradeMongos: .., upgradeShards: ..})
UpgradeCluster ==
    /\ At("upgradeCluster")
    /\ binVersion' = upgradeCluster(binVersion, Cur.version, Cur.groups)
    /\ upgrades' = Append(upgrades,
                          [groups |-> Cur.groups, version |-> Cur.version,
                           before |-> binVersion, at |-> Len(issued)])
    /\ Advance
    /\ UNCHANGED <<txnNumber, supportsSnapshotReadConcern, cluster, fcv, fixture,
                   sessions, call, issued, responses, batteries, fcvEvents>>

\* checkFCV(st.configRS.getPrimary().getDB("admin"), version)
CheckFCV ==
    /\ At("checkFCV")
    /\ fcvEvents' = Append(fcvEvents,
                           [op |-> "checkFCV", version |-> Cur.version,
                            ok |-> checkFCV(fcv, Cur.version),
                            binVersion |-> binVersion, at |-> Len(issued)])
    /\ IF checkFCV(fcv, Cur.version) THEN Advance ELSE Abort
    /\ UNCHANGED <<txnNumber, supportsSnapshotReadConcern, cluster, binVersion, fcv,
                   fixture, sessions, call, issued, responses, batteries, upgrades>>

\* assert.commandWorked(st.s.getDB("admin").runCommand(
\*     {setFeatureCompatibilityVersion: latestFCV}))
SetFeatureCompatibilityVersion ==
    /\ At("setFCV")
    /\ \E ok \in BOOLEAN :
         /\ fcvEvents' = Append(fcvEvents,
                                [op |-> "setFCV", version |-> Cur.version,
                                 ok |-> ok, binVersion |-> binVersion,
                                 at |-> Len(issued)])
         /\ IF ok
              THEN fcv' = Cur.version /\ Advance
              ELSE fcv' = fcv /\ Abort
    /\ UNCHANGED <<txnNumber, supportsSnapshotReadConcern, cluster, binVersion,
                   fixture, sessions, call, issued, responses, batteries, upgrades>>

\* st.stop(); and the function returns
StopCluster ==
    /\ At("stop")
    /\ cluster' = "stopped"
    /\ pc' = pc + 1
    /\ status' = "done"
    /\ step' = step
    /\ UNCHANGED <<txnNumber, supportsSnapshotReadConcern, binVersion, fcv, fixture,
                   sessions, call, issued, responses, batteries, upgrades, fcvEvents>>

----------------------------------------------------------------------------
Next ==
    \/ ProbeStorageEngine
    \/ CheckSupport
    \/ DeclareTxnNumber
    \/ ProvisionCluster
    \/ SetupStep
    \/ StartSession
    \/ FindUnsharded
    \/ FindShardedOneShard
    \/ FindShardedAllShards
    \/ VerifyResponse
    \/ UpgradeCluster
    \/ CheckFCV
    \/ SetFeatureCompatibilityVersion
    \/ StopCluster

Spec == Init /\ [][Next]_vars

----------------------------------------------------------------------------
(* runCommandAndVerifyResponse on every response and every expectation:    *)
(* a call of it is in progress on st.s0 or st.s1, with any expectSuccess   *)
(* and any expectedCode, and the response is about to arrive.              *)

InitVerify ==
    \E conn \in {"s0", "s1"}, es \in BOOLEAN, ec \in ErrorCodes \cup {Undefined} :
      LET cmdObj == [find |-> "unsharded", filter |-> "none",
                     readConcern |-> "snapshot", txnNumber |-> 0]
          bv == [g \in NodeGroups |-> "last-stable"]
      IN  /\ pc = Len(Prelude) + (IF conn = "s0" THEN 1 ELSE 2)
          /\ status = "running"
          /\ step = 1
          /\ txnNumber = 1
          /\ supportsSnapshotReadConcern = TRUE
          /\ cluster = "running"
          /\ binVersion = bv
          /\ fcv = lastStableFCV
          /\ fixture = {Prelude[i].name : i \in 5..Len(Prelude)}
          /\ sessions = 1
          /\ call = [cmdObj |-> cmdObj, expectSuccess |-> es, expectedCode |-> ec,
                     res |-> NoResponse, outcome |-> "running"]
          /\ issued = << [conn |-> conn, session |-> 1, db |-> "unshardedDb",
                          cmdObj |-> cmdObj, expectSuccess |-> es,
                          expectedCode |-> ec, binVersion |-> bv,
                          fcv |-> lastStableFCV] >>
          /\ responses = <<>>
          /\ batteries = << [conn |-> conn, session |-> 1,
                             causalConsistency |-> FALSE, expectSuccess |-> es,
                             expectedCode |-> ec, line |-> 121, txnBefore |-> 0,
                             txnAfter |-> -1, returned |-> FALSE] >>
          /\ upgrades = <<>>
          /\ fcvEvents = <<>>

NextVerify == VerifyResponse

SpecVerify == InitVerify /\ [][NextVerify]_vars

----------------------------------------------------------------------------
(* The vocabulary of the properties *)

Routers == {"s0", "s1"}

\* The states of the cluster, in the order of the upgrade.
StateOrder ==
    <<"OldVersion", "ConfigsUpgraded", "ShardsUpgraded", "RoutersUpgraded",
      "CompatibilityBumped">>

OnLatest(bv, groups) ==
    \A g \in NodeGroups : bv[g] = (IF g \in groups THEN "latest" ELSE "last-stable")

ClusterStateOf(bv, f) ==
    CASE OnLatest(bv, {}) /\ f = lastStableFCV -> "OldVersion"
      [] OnLatest(bv, {"configs"}) /\ f = lastStableFCV -> "ConfigsUpgraded"
      [] OnLatest(bv, {"configs", "shards"}) /\ f = lastStableFCV -> "ShardsUpgraded"
      [] OnLatest(bv, NodeGroups) /\ f = lastStableFCV -> "RoutersUpgraded"
      [] OnLatest(bv, NodeGroups) /\ f = latestFCV -> "CompatibilityBumped"
      [] OTHER -> "Unspecified"

\* 1..5 along StateOrder; 0 before the cluster exists.
StateIdx(name) ==
    IF \E k \in DOMAIN StateOrder : StateOrder[k] = name
      THEN CHOOSE k \in DOMAIN StateOrder : StateOrder[k] = name
      ELSE 0

ClusterState == ClusterStateOf(binVersion, fcv)

StateAt(i) == ClusterStateOf(issued[i].binVersion, issued[i].fcv)

\* The error code each state before the full upgrade must reject with.
DesignatedCode(name) ==
    CASE name = "OldVersion" -> "FailedToParse"
      [] name = "ConfigsUpgraded" -> "FailedToParse"
      [] name = "ShardsUpgraded" -> "InvalidOptions"
      [] OTHER -> Undefined

\* The three request shapes of a battery, in order.
Shapes ==
    << [db |-> "unshardedDb", find |-> "unsharded", filter |-> "none"],
       [db |-> "shardedDb", find |-> "sharded", filter |-> "{x: 1}"],
       [db |-> "shardedDb", find |-> "sharded", filter |-> "none"] >>

ShapeOf(i) ==
    [db |-> issued[i].db, find |-> issued[i].cmdObj.find,
     filter |-> issued[i].cmdObj.filter]

\* A response that meets its expectation.
Meets(res, expectSuccess, expectedCode) ==
    \/ expectSuccess /\ (res.ok \/ res.code = "SnapshotTooOld")
    \/ ~expectSuccess /\ ~res.ok /\ res.code = expectedCode

Answered(i) == i \in DOMAIN responses

Passed(i) ==
    Answered(i) /\ Meets(responses[i], issued[i].expectSuccess, issued[i].expectedCode)

\* The commands sent while the cluster was in the named state.
SentIn(name) == {i \in DOMAIN issued : StateAt(i) = name}

\* Every router got every shape among the commands S.
Covers(S) ==
    \A r \in Routers : \A k \in DOMAIN Shapes :
      \E i \in S : issued[i].conn = r /\ ShapeOf(i) = Shapes[k]

----------------------------------------------------------------------------
(* C1: the run is past a state before the full upgrade (OldVersion,        *)
(* ConfigsUpgraded, ShardsUpgraded) only if every snapshot command sent in *)
(* that state, three to each router, failed with the state's code:         *)
(* FailedToParse, FailedToParse, InvalidOptions.                           *)
C1_RejectedBeforeFullUpgrade ==
    \A k \in 1..3 :
      StateIdx(ClusterState) > k =>
        LET S == SentIn(StateOrder[k])
        IN  /\ Covers(S)
            /\ \A i \in S :
                 /\ Answered(i)
                 /\ ~responses[i].ok
                 /\ responses[i].code = DesignatedCode(StateOrder[k])

C1_Witness ==
    /\ ClusterState = "RoutersUpgraded"
    /\ Cardinality(SentIn("ShardsUpgraded")) = 6
    /\ \A i \in SentIn("ShardsUpgraded") :
         Answered(i) /\ responses[i].code = "InvalidOptions"

(* C2: the cluster is torn down only if every snapshot command sent in the *)
(* states RoutersUpgraded and CompatibilityBumped, three to each router in *)
(* each, returned ok or failed with SnapshotTooOld.                        *)
C2_AcceptedAfterFullUpgrade ==
    cluster = "stopped" =>
      \A k \in 4..5 :
        LET S == SentIn(StateOrder[k])
        IN  /\ Covers(S)
            /\ \A i \in S :
                 Answered(i) /\ (responses[i].ok \/ responses[i].code = "SnapshotTooOld")

C2_Witness ==
    /\ cluster = "stopped"
    /\ \E i \in SentIn("RoutersUpgraded") : responses[i].ok
    /\ \E i \in SentIn("CompatibilityBumped") :
         ~responses[i].ok /\ responses[i].code = "SnapshotTooOld"

(* C3: the txnNumber values of the snapshot commands of a run strictly     *)
(* increase in the order the commands are sent (so no two are equal), and  *)
(* the counter is above every value already used.                          *)
C3_TxnNumberStrictlyIncreases ==
    /\ \A i, j \in DOMAIN issued :
         i < j => issued[i].cmdObj.txnNumber < issued[j].cmdObj.txnNumber
    /\ \A i \in DOMAIN issued : issued[i].cmdObj.txnNumber < txnNumber

C3_Witness ==
    /\ Len(issued) = 30
    /\ Cardinality({issued[i].session : i \in DOMAIN issued}) = 10
    /\ Cardinality({issued[i].conn : i \in DOMAIN issued}) = 2

(* C4: runCommandAndVerifyResponse returns (the run goes on) exactly when  *)
(* expectSuccess is true and the response is ok or has code                *)
(* SnapshotTooOld, or expectSuccess is false and the response is not ok    *)
(* and has code expectedCode; in every other case the run is aborted.      *)
C4_VerdictMatchesExpectation ==
    call.outcome \in {"returned", "threw"} =>
      /\ (call.outcome = "returned")
           <=> Meets(call.res, call.expectSuccess, call.expectedCode)
      /\ (status = "aborted") <=> (call.outcome = "threw")

C4_Witness ==
    /\ call.outcome = "returned"
    /\ ~call.expectSuccess
    /\ call.expectedCode = "SnapshotTooOld"
    /\ call.res = [ok |-> FALSE, code |-> "SnapshotTooOld"]

\* The six commands of a state's two batteries: st.s0 three times, then
\* st.s1 three times, each shape in order, all meeting the expectation.
BothRoutersPassed(S) ==
    \E f \in DOMAIN issued :
      /\ S = f..(f + 5)
      /\ \A n \in 0..5 :
           /\ issued[f + n].conn = (IF n < 3 THEN "s0" ELSE "s1")
           /\ ShapeOf(f + n) = Shapes[(n % 3) + 1]
           /\ Passed(f + n)

C5_State ==
    /\ Cardinality({<<issued[i].binVersion, issued[i].fcv, issued[i].conn, ShapeOf(i)>> :
                      i \in DOMAIN issued}) = Len(issued)
    /\ \A i \in DOMAIN responses :
         ~Passed(i) => status = "aborted" /\ i = Len(issued)

(* C5: no command is sent twice (no router gets the same request shape     *)
(* twice in one state of the cluster), a response that does not meet its   *)
(* expectation belongs to the last command of the run and leaves the run   *)
(* aborted, and an aborted run takes no further step of any kind.          *)
C5_NoRetryMismatchAborts ==
    []C5_State /\ [][status = "aborted" => UNCHANGED vars]_vars

C5_Witness ==
    /\ status = "aborted"
    /\ Len(responses) = 20
    /\ Len(issued) = 20
    /\ ~Passed(20)

C6_State ==
    /\ \A k \in DOMAIN batteries :
         /\ batteries[k].returned =>
              batteries[k].txnAfter = batteries[k].txnBefore + 3
         /\ k = 1 => batteries[k].txnBefore = 0
         /\ k > 1 => /\ batteries[k - 1].returned
                     /\ batteries[k].txnBefore = batteries[k - 1].txnAfter
         /\ (k % 2 = 0 /\ batteries[k].returned) =>
              /\ {batteries[k - 1].conn, batteries[k].conn} = Routers
              /\ batteries[k].txnAfter = batteries[k - 1].txnBefore + 6
    /\ (step = 0 /\ batteries # <<>>) =>
         txnNumber = batteries[Len(batteries)].txnAfter

C6_Step ==
    txnNumber' # txnNumber =>
      /\ txnNumber' = txnNumber + 1
      /\ step \in 1..3
      /\ Len(issued') = Len(issued) + 1

C7_BatteryShape ==
    /\ \A k, l \in DOMAIN batteries :
         k # l => batteries[k].session # batteries[l].session
    /\ \A k \in DOMAIN batteries :
         LET b == batteries[k]
             S == {i \in DOMAIN issued : issued[i].session = b.session}
         IN  /\ ~b.causalConsistency
             /\ \A i \in S :
                  /\ issued[i].conn = b.conn
                  /\ issued[i].expectSuccess = b.expectSuccess
                  /\ issued[i].expectedCode = b.expectedCode
                  /\ issued[i].cmdObj.readConcern = "snapshot"
             /\ b.returned =>
                  \E f \in DOMAIN issued :
                    /\ S = f..(f + 2)
                    /\ \A n \in 1..3 :
                         ShapeOf(f + n - 1) = Shapes[n] /\ Passed(f + n - 1)
    /\ \A i \in DOMAIN issued :
         /\ \E k \in DOMAIN batteries : batteries[k].session = issued[i].session
         /\ IF i = 1 \/ issued[i - 1].session # issued[i].session
              THEN ShapeOf(i) = Shapes[1]
              ELSE /\ Passed(i - 1)
                   /\ \E n \in 2..3 :
                        ShapeOf(i) = Shapes[n] /\ ShapeOf(i - 1) = Shapes[n - 1]

C7_Witness ==
    /\ Len(batteries) = 7
    /\ batteries[7].returned
    /\ batteries[7].expectSuccess
    /\ \E i \in DOMAIN responses :
         issued[i].session = batteries[7].session /\ ~responses[i].ok

UpgradeOrder == <<"configs", "shards", "mongos">>

C8_State ==
    /\ Len(issued) - Len(responses) \in {0, 1}
    /\ cluster # "none" => ClusterState \in {StateOrder[k] : k \in DOMAIN StateOrder}
    /\ Len(upgrades) <= Len(UpgradeOrder)

C8_Step ==
    LET from == StateIdx(ClusterState)
        to == StateIdx(ClusterState')
    IN  /\ to \in {from, from + 1}
        /\ \A g \in NodeGroups : binVersion[g] = "latest" => binVersion'[g] = "latest"
        /\ (binVersion' # binVersion /\ cluster # "none") => upgrades' # upgrades
        /\ upgrades' # upgrades =>
             /\ Len(upgrades') = Len(upgrades) + 1
             /\ Len(upgrades') <= Len(UpgradeOrder)
             /\ LET u == upgrades'[Len(upgrades')]
                IN  /\ u.groups = {UpgradeOrder[Len(upgrades')]}
                    /\ \A g \in NodeGroups :
                         IF g \in u.groups
                           THEN binVersion[g] = "last-stable" /\ binVersion'[g] = "latest"
                           ELSE binVersion'[g] = binVersion[g]
        /\ (to = from + 1 /\ from >= 1) => BothRoutersPassed(SentIn(ClusterState))

(* C8: the cluster only moves one state forward at a time along            *)
(* OldVersion, ConfigsUpgraded, ShardsUpgraded, RoutersUpgraded,           *)
(* CompatibilityBumped; an upgrade call moves exactly one node group from  *)
(* last-stable to latest, configs first, then shards, then mongos, and no  *)
(* group goes back; a state is left only after its six commands, three on  *)
(* st.s0 and then three on st.s1, met the expectation; at most one command *)
(* is awaiting its response at any time.                                   *)
C8_ForwardOnly ==
    []C8_State /\ [][C8_Step]_vars

C8_Witness ==
    /\ ClusterState = "CompatibilityBumped"
    /\ Len(upgrades) = 3
    /\ Len(issued) = 24

CheckedBefore(i, version) ==
    \E j \in DOMAIN fcvEvents :
      /\ fcvEvents[j].op = "checkFCV"
      /\ fcvEvents[j].version = version
      /\ fcvEvents[j].ok
      /\ OnLatest(fcvEvents[j].binVersion, NodeGroups)
      /\ fcvEvents[j].at < i

(* C9: setFeatureCompatibilityVersion is sent only with latestFCV, only    *)
(* with configs, shards and mongos on the latest binary, and only after    *)
(* the six commands of the state RoutersUpgraded met the expectation; a    *)
(* command is sent in the state RoutersUpgraded only after checkFCV found  *)
(* the marker at lastStableFCV, and in the state CompatibilityBumped only  *)
(* after the bump returned ok and a later checkFCV found latestFCV.        *)
C9_BumpOrdering ==
    /\ \A j \in DOMAIN fcvEvents :
         fcvEvents[j].op = "setFCV" =>
           /\ fcvEvents[j].version = latestFCV
           /\ OnLatest(fcvEvents[j].binVersion, NodeGroups)
           /\ BothRoutersPassed({i \in 1..fcvEvents[j].at : StateAt(i) = "RoutersUpgraded"})
    /\ fcv = latestFCV =>
         \E j \in DOMAIN fcvEvents : fcvEvents[j].op = "setFCV" /\ fcvEvents[j].ok
    /\ \A i \in DOMAIN issued :
         /\ OnLatest(issued[i].binVersion, NodeGroups) /\ issued[i].fcv = lastStableFCV
              => CheckedBefore(i, lastStableFCV)
         /\ OnLatest(issued[i].binVersion, NodeGroups) /\ issued[i].fcv = latestFCV
              => /\ CheckedBefore(i, latestFCV)
                 /\ \E j, k \in DOMAIN fcvEvents :
                      /\ j < k
                      /\ fcvEvents[j].op = "setFCV" /\ fcvEvents[j].ok
                      /\ fcvEvents[k].op = "checkFCV" /\ fcvEvents[k].ok
                      /\ fcvEvents[k].version = latestFCV
                      /\ fcvEvents[k].at < i

C9_Witness ==
    /\ Len(fcvEvents) = 3
    /\ fcv = latestFCV
    /\ \E i \in DOMAIN issued : StateAt(i) = "CompatibilityBumped"

C10_State ==
    /\ cluster = "stopped" =>
         /\ status = "done"
         /\ AtEnd
         /\ supportsSnapshotReadConcern
         /\ Len(issued) = 30
         /\ \A i \in DOMAIN issued :
              issued[i].cmdObj.txnNumber = i - 1 /\ Passed(i)
         /\ {<<StateAt(i), issued[i].conn, ShapeOf(i)>> : i \in DOMAIN issued}
              = {<<StateOrder[k], r, Shapes[n]>> :
                   k \in DOMAIN StateOrder, r \in Routers, n \in DOMAIN Shapes}
    /\ status = "done" => cluster = "stopped"
    /\ (pc > 1 /\ ~supportsSnapshotReadConcern) =>
         /\ cluster = "none"
         /\ issued = <<>>
         /\ status \in {"running", "skipped"}
         /\ pc = 2
    /\ status = "aborted" => cluster = "running"

(* C10: st.stop() runs only as the last step of a run whose probe reported *)
(* snapshot support and whose 30 snapshot commands (5 states x 2 routers x *)
(* 3 shapes, txnNumber 0 to 29) all met the expectation, and nothing runs  *)
(* after it; when the probe reports no support no cluster is provisioned   *)
(* and no snapshot command is sent; an aborted run leaves the cluster      *)
(* running.                                                                *)
C10_TeardownOnlyAtEnd ==
    []C10_State /\ [][cluster = "stopped" => UNCHANGED vars]_vars

C10_Witness ==
    /\ cluster = "stopped"
    /\ status = "done"
    /\ txnNumber = 30

====
